---- MODULE Spec2Model ----
(***************************************************************************)
(* Model of the chunk / embed / index / retrieve core of the Debt          *)
(* Collection Intelligence System (app/core/embeddings.py,                 *)
(* app/core/retriever.py, app/api/admin.py).                               *)
(*                                                                         *)
(* Python values are represented as follows.                               *)
(*   - None / an object:   Option records, None and Some(x).               *)
(*   - a text:             a small natural number.                         *)
(*   - an embedding:       a one-dimensional integer vector EmbedVec(t);   *)
(*                         the squared L2 distance is Dist.                *)
(*   - faiss.IndexFlatL2:  the sequence of its stored vectors (ntotal is   *)
(*                         its length); positions are 1-based here and     *)
(*                         0-based in the code.                            *)
(*   - a dict:             a sequence of [key, vec] records in insertion   *)
(*                         order (CPython dicts iterate in that order).    *)
(*   - a file:             None when absent, else Some(sequence of items). *)
(***************************************************************************)
EXTENDS Integers, Sequences, FiniteSets, TLC

\* ------------------------------------------------------------------------
\* Bounds of the model
\* ------------------------------------------------------------------------
MaxBatch == 2
MaxVectors == 3
MaxTopK == 2
MaxCacheSize == 2
NCacheTexts == 3
MaxFaults == 1
MaxRuns == 2
MaxPages == 2
MaxStored == 2
MaxInitialK == 3
NProcs == 2

DocIds == {"A", "B"}
Texts == {1, 2}
CacheTexts == 1..NCacheTexts

VARIABLES
    model,        \* _model: "None" or "SentenceTransformer"
    index,        \* _index: None or Some(sequence of vectors)
    meta,         \* _meta: None or Some(sequence of metadata entries)
    cache,        \* _embedding_cache: insertion-ordered sequence of [key, vec]
    ENABLE_CACHE, \* configuration read at import time
    CACHE_SIZE,   \* configuration read at import time
    diskIndex,    \* ./data/faiss.index
    diskMeta,     \* ./data/faiss_meta.pkl
    ret,          \* the last completed call and its outcome
    faults,       \* failures of the environment so far (encode errors, failed writes)
    pc,           \* per thread: the statement it executes next, "idle" between calls
    loc,          \* per thread: the local variables of its call
    modelBuilds,  \* how often SentenceTransformer(...) was constructed
    pairInits,    \* how often _ensure_index loaded or created the pair
    db            \* the documents table: ids of the documents with rows in the database

vars == <<model, index, meta, cache, ENABLE_CACHE, CACHE_SIZE, diskIndex, diskMeta,
          ret, faults, pc, loc, modelBuilds, pairInits, db>>

\* ------------------------------------------------------------------------
\* Option values
\* ------------------------------------------------------------------------
None == [none |-> TRUE]
Some(x) == [val |-> x]
IsNone(o) == "none" \in DOMAIN o
IsSome(o) == "val" \in DOMAIN o

\* ------------------------------------------------------------------------
\* Chunks, metadata entries, embeddings
\* ------------------------------------------------------------------------
DocNo(d) == IF d = "A" THEN 1 ELSE 2

\* a chunk record as produced by chunk_and_store for document d and text t
Chunk(d, t) ==
    [chunk_id |-> DocNo(d) * 10 + t, document_id |-> d, page_no |-> 1,
     char_start |-> 0, char_end |-> 50 + t, text |-> t]

Chunks == {Chunk(d, t) : d \in DocIds, t \in Texts}

RECURSIVE SeqsUpTo(_, _)
SeqsUpTo(S, n) ==
    IF n = 0 THEN {<<>>}
    ELSE LET shorter == SeqsUpTo(S, n - 1)
         IN shorter \cup {Append(s, x) : s \in {u \in shorter : Len(u) = n - 1}, x \in S}

\* the batches handed to ensure_index_and_add: chunks of two uploaded
\* documents with one chunk text each, in any mix and order
StoreChunks == {Chunk("A", 1), Chunk("B", 2)}

Batches == SeqsUpTo(StoreChunks, MaxBatch)

\* model.encode for one text
EmbedVec(t) == (t * t) % 7

\* squared L2 distance of IndexFlatL2
Dist(a, b) == (a - b) * (a - b)

\* the dict that ensure_index_and_add appends to _meta for one chunk
MetaEntry(chunk) ==
    [chunk_id |-> chunk.chunk_id, document_id |-> chunk.document_id,
     page_no |-> chunk.page_no, page |-> chunk.page_no,
     char_start |-> chunk.char_start, char_end |-> chunk.char_end,
     text |-> chunk.text]

\* ------------------------------------------------------------------------
\* Model loading
\* ------------------------------------------------------------------------
GetModel(m) == IF m = "None" THEN "SentenceTransformer" ELSE m

\* ------------------------------------------------------------------------
\* Durable files
\* ------------------------------------------------------------------------
\* faiss.write_index: header, vector count, then the vectors
WriteIndex(xb) == <<"IxF2", Len(xb)>> \o xb

IndexReadable(f) == Len(f) >= 2 /\ Len(f) = 2 + f[2]

\* faiss.read_index of a readable file
ReadIndex(f) == SubSeq(f, 3, 2 + f[2])

\* pickle.dump of the metadata list: protocol mark, list length, the entries
PickleDump(mt) == <<"pkl", Len(mt)>> \o mt

MetaReadable(f) == Len(f) >= 2 /\ Len(f) = 2 + f[2]

\* pickle.load of a readable file
PickleLoad(f) == SubSeq(f, 3, 2 + f[2])

\* a write interrupted after the header, before any item reached the file
Truncated(f) == SubSeq(f, 1, 1)

SaveOutcomes == {"ok", "index_fail", "index_partial", "meta_open_fail", "meta_partial"}

\* _save_index: the two files after the try block, and whether it completed
SaveIndexDropsNewest(ix, mt, fIx, fMt, outcome) ==
    CASE outcome = "ok" ->
            [diskIndex |-> Some(WriteIndex(SubSeq(ix.val, 1, Len(ix.val) - 1))),
             diskMeta |-> Some(PickleDump(SubSeq(mt.val, 1, Len(mt.val) - 1))),
             saved |-> TRUE]
      [] outcome = "index_fail" ->
            [diskIndex |-> fIx, diskMeta |-> fMt, saved |-> FALSE]
      [] outcome = "index_partial" ->
            [diskIndex |-> Some(Truncated(WriteIndex(ix.val))),
             diskMeta |-> fMt, saved |-> FALSE]
      [] outcome = "meta_open_fail" ->
            [diskIndex |-> Some(WriteIndex(ix.val)),
             diskMeta |-> fMt, saved |-> FALSE]
      [] outcome = "meta_partial" ->
            [diskIndex |-> Some(WriteIndex(ix.val)),
             diskMeta |-> Some(Truncated(PickleDump(mt.val))), saved |-> FALSE]

SaveIndexKeepsOldMeta(ix, mt, fIx, fMt, outcome) ==
    CASE outcome = "ok" ->
            [diskIndex |-> Some(WriteIndex(ix.val)),
             diskMeta |-> fMt, saved |-> TRUE]
      [] outcome = "index_fail" ->
            [diskIndex |-> fIx, diskMeta |-> fMt, saved |-> FALSE]
      [] outcome = "index_partial" ->
            [diskIndex |-> Some(Truncated(WriteIndex(ix.val))),
             diskMeta |-> fMt, saved |-> FALSE]
      [] outcome = "meta_open_fail" ->
            [diskIndex |-> Some(WriteIndex(ix.val)),
             diskMeta |-> fMt, saved |-> FALSE]
      [] outcome = "meta_partial" ->
            [diskIndex |-> Some(WriteIndex(ix.val)),
             diskMeta |-> Some(Truncated(PickleDump(mt.val))), saved |-> FALSE]

SaveIndex(ix, mt, fIx, fMt, outcome) ==
    CASE outcome = "ok" ->
            [diskIndex |-> Some(WriteIndex(ix.val)),
             diskMeta |-> Some(PickleDump(mt.val)), saved |-> TRUE]
      [] outcome = "index_fail" ->
            [diskIndex |-> fIx, diskMeta |-> fMt, saved |-> FALSE]
      [] outcome = "index_partial" ->
            [diskIndex |-> Some(Truncated(WriteIndex(ix.val))),
             diskMeta |-> fMt, saved |-> FALSE]
      [] outcome = "meta_open_fail" ->
            [diskIndex |-> Some(WriteIndex(ix.val)),
             diskMeta |-> fMt, saved |-> FALSE]
      [] outcome = "meta_partial" ->
            [diskIndex |-> Some(WriteIndex(ix.val)),
             diskMeta |-> Some(Truncated(PickleDump(mt.val))), saved |-> FALSE]

\* ------------------------------------------------------------------------
\* _ensure_index
\* ------------------------------------------------------------------------
\* lines 82-94: both files exist and both loads succeed
Restorable(fIx, fMt) ==
    IsSome(fIx) /\ IsSome(fMt) /\ IndexReadable(fIx.val) /\ MetaReadable(fMt.val)

EnsureIndexAlwaysLoads(ix, mt, m, fIx, fMt) ==
    IF Restorable(fIx, fMt)
    THEN [index |-> Some(ReadIndex(fIx.val)), meta |-> Some(PickleLoad(fMt.val)),
          model |-> m, how |-> IF IsSome(ix) /\ IsSome(mt) THEN "resident"
                               ELSE "restored"]
    ELSE IF IsSome(ix) /\ IsSome(mt)
         THEN [index |-> ix, meta |-> mt, model |-> m, how |-> "resident"]
         ELSE [index |-> Some(<<>>), meta |-> Some(<<>>),
               model |-> GetModel(m), how |-> "fresh"]

EnsureIndexKeepsReadIndex(ix, mt, m, fIx, fMt) ==
    IF IsSome(ix) /\ IsSome(mt)
    THEN [index |-> ix, meta |-> mt, model |-> m, how |-> "resident"]
    ELSE IF Restorable(fIx, fMt)
         THEN [index |-> Some(ReadIndex(fIx.val)), meta |-> Some(PickleLoad(fMt.val)),
               model |-> m, how |-> "restored"]
         ELSE [index |-> IF IsSome(fIx) /\ IsSome(fMt) /\ IndexReadable(fIx.val)
                         THEN Some(ReadIndex(fIx.val)) ELSE Some(<<>>),
               meta |-> Some(<<>>),
               model |-> GetModel(m), how |-> "fresh"]

EnsureIndex(ix, mt, m, fIx, fMt) ==
    IF IsSome(ix) /\ IsSome(mt)
    THEN [index |-> ix, meta |-> mt, model |-> m, how |-> "resident"]
    ELSE IF Restorable(fIx, fMt)
         THEN [index |-> Some(ReadIndex(fIx.val)), meta |-> Some(PickleLoad(fMt.val)),
               model |-> m, how |-> "restored"]
         ELSE [index |-> Some(<<>>), meta |-> Some(<<>>),
               model |-> GetModel(m), how |-> "fresh"]

\* ------------------------------------------------------------------------
\* Embedding cache and embed_texts
\* ------------------------------------------------------------------------
\* _hash_text: MD5 hex digest, taken to be collision free
HashText(t) == 100 + t

CacheHasNever(c, key) == FALSE

CacheHas(c, key) == \E i \in 1..Len(c) : c[i].key = key

CacheGet(c, key) == c[CHOOSE i \in 1..Len(c) : c[i].key = key].vec

\* d[key] = vec on an insertion-ordered dict
DictSet(c, key, vec) ==
    IF CacheHas(c, key)
    THEN [i \in 1..Len(c) |-> IF c[i].key = key THEN [key |-> key, vec |-> vec] ELSE c[i]]
    ELSE Append(c, [key |-> key, vec |-> vec])

\* lines 148-150: evict the first key once the capacity is reached, then store
CacheInsertNoEvict(c, cap, key, vec) ==
    DictSet(IF Len(c) > cap THEN Tail(c) ELSE c, key, vec)

CacheInsertEvictNewest(c, cap, key, vec) ==
    DictSet(IF Len(c) >= cap THEN SubSeq(c, 1, Len(c) - 1) ELSE c, key, vec)

CacheInsert(c, cap, key, vec) ==
    DictSet(IF Len(c) >= cap THEN Tail(c) ELSE c, key, vec)

\* embed_texts(texts, use_cache): outcome, returned vectors, cache and model
\* afterwards, whether model.encode was invoked, and the key that line 149
\* popped (0 when it popped none)
CacheEligibleAnySingle(texts, use_cache, en) == Len(texts) = 1

\* lines 125 and 146: use_cache and ENABLE_CACHE and len(texts) == 1
CacheEligible(texts, use_cache, en) == use_cache /\ en /\ Len(texts) = 1

\* model.encode never fails
EncodeRaisesNever(encodeOk) == FALSE

\* lines 134-140: model.encode raises (out of memory, a broken model file)
EncodeRaises(encodeOk) == ~encodeOk

EmbedTexts(c, m, texts, use_cache, en, cap, encodeOk) ==
    LET eligible == CacheEligible(texts, use_cache, en)
        key == HashText(texts[1])
        vecs == [i \in 1..Len(texts) |-> EmbedVec(texts[i])]
    IN  IF Len(texts) = 0
        THEN [status |-> "returned", out |-> <<>>, cache |-> c, model |-> m,
              encoded |-> FALSE, evicted |-> 0]
        ELSE IF eligible /\ CacheHas(c, key)
        THEN [status |-> "returned", out |-> <<CacheGet(c, key)>>, cache |-> c,
              model |-> GetModel(m), encoded |-> FALSE, evicted |-> 0]
        ELSE IF EncodeRaises(encodeOk)
        THEN [status |-> "raised", out |-> <<>>, cache |-> c,
              model |-> GetModel(m), encoded |-> TRUE, evicted |-> 0]
        ELSE [status |-> "returned", out |-> vecs,
              cache |-> IF eligible THEN CacheInsert(c, cap, key, vecs[1]) ELSE c,
              model |-> GetModel(m), encoded |-> TRUE,
              evicted |-> IF eligible /\ Len(c) >= cap THEN c[1].key ELSE 0]

\* ------------------------------------------------------------------------
\* search_index and retrieve_top_k
\* ------------------------------------------------------------------------
\* line 206: _index.ntotal == 0
IndexEmptyNever(xb) == FALSE

IndexEmpty(xb) == Len(xb) = 0

\* every given list counts as a scope
TruthyWhenGiven(document_ids) == IsSome(document_ids)

\* `if document_ids:` is false for None and for the empty list
Truthy(document_ids) == IsSome(document_ids) /\ document_ids.val # {}

\* str(); every document id in the index and in a scope is already a string
Str(d) == d

\* line 213: the factor of top_k * 10
CANDIDATE_MULTIPLIER == 10

\* every vector of the index is a candidate
SearchKWholeIndex(top_k, document_ids, ntotal) == ntotal

\* line 213: candidate count handed to the nearest-neighbour query
SearchK(top_k, document_ids, ntotal) ==
    LET want == IF Truthy(document_ids) THEN top_k * CANDIDATE_MULTIPLIER ELSE top_k
    IN  IF want < ntotal THEN want ELSE ntotal

\* _index.search: the k nearest positions in ascending distance; the order
\* among equal distances is not fixed by the library
KNNFarthest(xb, q, k) ==
    {s \in [1..k -> 1..Len(xb)] :
        /\ \A i, j \in 1..k :
              i < j => s[i] # s[j] /\ Dist(xb[s[i]], q) >= Dist(xb[s[j]], q)
        /\ \A p \in 1..Len(xb) :
              (\A i \in 1..k : s[i] # p)
                 => \A i \in 1..k : Dist(xb[s[i]], q) >= Dist(xb[p], q)}

\* the answers of _index.search built nearest first: each position is one of
\* the nearest among the positions not yet taken
RECURSIVE NearestFirst(_, _, _, _)
NearestFirst(xb, q, k, left) ==
    IF k = 0 THEN {<<>>}
    ELSE LET best == {p \in left :
                         \A r \in left : Dist(xb[p], q) <= Dist(xb[r], q)}
         IN  UNION {{<<p>> \o s : s \in NearestFirst(xb, q, k - 1, left \ {p})} :
                       p \in best}

KNN(xb, q, k) == NearestFirst(xb, q, k, 1..Len(xb))

\* a query for more neighbours than the index holds pads the answer with the
\* "no match" position (-1 in the code, 0 here)
IndexSearch(xb, q, k) ==
    IF k <= Len(xb) THEN KNN(xb, q, k)
    ELSE {s \o [i \in 1..(k - Len(xb)) |-> 0] : s \in KNN(xb, q, Len(xb))}

\* zip(distances[0], indices[0]); the distance of a "no match" slot is never used
Pairs(s, xb, q) ==
    [i \in 1..Len(s) |->
        [dist |-> IF s[i] = 0 THEN 0 ELSE Dist(xb[s[i]], q), idx |-> s[i]]]

\* meta = _meta[idx].copy(); meta["score"] = float(dist)
WithScore(m, dist) ==
    [chunk_id |-> m.chunk_id, document_id |-> m.document_id,
     page_no |-> m.page_no, page |-> m.page,
     char_start |-> m.char_start, char_end |-> m.char_end,
     text |-> m.text, score |-> dist]

\* lines 233-241: does the document filter reject this entry
RejectedNever(m, document_ids) == FALSE

\* the search also drops the chunks of documents without a database row
RejectedWhenDeleted(m, document_ids) ==
    \/ m.document_id \notin db
    \/ /\ Truthy(document_ids)
       /\ Str(m.document_id) \notin {Str(d) : d \in document_ids.val}

Rejected(m, document_ids) ==
    /\ Truthy(document_ids)
    /\ Str(m.document_id) \notin {Str(d) : d \in document_ids.val}

\* lines 225-247: the loop over the candidates
RECURSIVE Walk(_, _, _, _, _)
Walk(pairs, mt, document_ids, top_k, results) ==
    IF Len(pairs) = 0 THEN results
    ELSE LET dist == Head(pairs).dist
             idx == Head(pairs).idx
             rest == Tail(pairs)
         IN  IF idx = 0 \/ idx > Len(mt)
             THEN Walk(rest, mt, document_ids, top_k, results)
             ELSE IF Rejected(WithScore(mt[idx], dist), document_ids)
             THEN Walk(rest, mt, document_ids, top_k, results)
             ELSE LET more == Append(results, WithScore(mt[idx], dist))
                  IN  IF Len(more) >= top_k THEN more
                      ELSE Walk(rest, mt, document_ids, top_k, more)

\* the rank counts from 0
RankedFromZero(results) ==
    [i \in 1..Len(results) |->
        [chunk_id |-> results[i].chunk_id, document_id |-> results[i].document_id,
         page_no |-> results[i].page_no, page |-> results[i].page,
         char_start |-> results[i].char_start, char_end |-> results[i].char_end,
         text |-> results[i].text, score |-> results[i].score, rank |-> i - 1]]

\* retrieve_top_k lines 39-40: chunk["rank"] = i + 1
Ranked(results) ==
    [i \in 1..Len(results) |->
        [chunk_id |-> results[i].chunk_id, document_id |-> results[i].document_id,
         page_no |-> results[i].page_no, page |-> results[i].page,
         char_start |-> results[i].char_start, char_end |-> results[i].char_end,
         text |-> results[i].text, score |-> results[i].score, rank |-> i]]

Scopes == {None} \cup {Some(S) : S \in SUBSET DocIds}

\* ------------------------------------------------------------------------
\* ensure_index_and_add
\* ------------------------------------------------------------------------
\* line 182: _index.add(embeddings)
IndexAdd(xb, vecs) == xb \o vecs

\* lines 184-193: one metadata entry per chunk, in the order of the chunks
MetaAppend(mt, chunks) ==
    mt \o [i \in 1..Len(chunks) |-> MetaEntry(chunks[i])]

ChunkTexts(chunks) == [i \in 1..Len(chunks) |-> chunks[i].text]

ChunkTexts2Vecs(chunks) == [i \in 1..Len(chunks) |-> EmbedVec(chunks[i].text)]

\* ------------------------------------------------------------------------
\* Single-caller operations: each action is one complete call
\* ------------------------------------------------------------------------
Config == <<ENABLE_CACHE, CACHE_SIZE>>
Disk == <<diskIndex, diskMeta>>
Threads == <<pc, loc, modelBuilds, pairInits>>

Procs == 1..NProcs

\* the locals of a thread that is not inside a call
IdleLoc ==
    [op |-> "idle", chunks |-> <<>>, emb |-> <<>>, query |-> 0, top_k |-> 0,
     document_ids |-> None, search_k |-> 0, cands |-> <<>>, i |-> 0,
     results |-> <<>>, texts |-> <<>>, use_cache |-> FALSE, hash |-> 0,
     gret |-> "idle", eret |-> "idle",
     document_id |-> "", pages |-> <<>>, page_i |-> 0, start |-> 0,
     chunks_data |-> <<>>]

NoCallInProgress ==
    /\ pc = [p \in Procs |-> "idle"]
    /\ loc = [p \in Procs |-> IdleLoc]
    /\ modelBuilds = 0
    /\ pairInits = 0

\* the call before this one was an add that returned although its save failed
UnsavedAdd ==
    ret.op = "add" /\ ret.status = "returned" /\ Len(ret.chunks) > 0 /\ ~ret.saved

EnsureIndexAndAdd(chunks, encodeOk, outcome) ==
    IF Len(chunks) = 0
    THEN /\ ret' = [op |-> "add", status |-> "returned", chunks |-> chunks,
                    n |-> 0, saved |-> FALSE, how |-> "skipped",
                    after |-> "other"]
         /\ encodeOk /\ outcome = "ok"
         /\ UNCHANGED <<model, index, meta, cache, Config, db, Disk, faults, Threads>>
    ELSE LET e == EnsureIndex(index, meta, model, diskIndex, diskMeta)
             em == EmbedTexts(cache, e.model, ChunkTexts(chunks), FALSE,
                              ENABLE_CACHE, CACHE_SIZE, encodeOk)
             failed == ~encodeOk \/ outcome # "ok"
         IN  /\ Len(e.index.val) + Len(chunks) <= MaxVectors
             /\ ~encodeOk => outcome = "ok"
             /\ failed => faults < MaxFaults
             /\ faults' = IF failed THEN faults + 1 ELSE faults
             /\ model' = em.model
             /\ cache' = em.cache
             /\ IF em.status = "raised"
                THEN /\ index' = e.index
                     /\ meta' = e.meta
                     /\ ret' = [op |-> "add", status |-> "raised"]
                     /\ UNCHANGED Disk
                ELSE LET ix == Some(IndexAdd(e.index.val, em.out))
                         mt == Some(MetaAppend(e.meta.val, chunks))
                         sv == SaveIndex(ix, mt, diskIndex, diskMeta, outcome)
                     IN  /\ index' = ix
                         /\ meta' = mt
                         /\ diskIndex' = sv.diskIndex
                         /\ diskMeta' = sv.diskMeta
                         /\ ret' = [op |-> "add", status |-> "returned",
                                    chunks |-> chunks, n |-> Len(e.index.val),
                                    saved |-> sv.saved, how |-> e.how,
                                    after |-> IF UnsavedAdd THEN "failed_save"
                                              ELSE "other"]
             /\ UNCHANGED <<Config, db, Threads>>

\* ------------------------------------------------------------------------
\* The callers of retrieve_top_k
\* ------------------------------------------------------------------------
\* len(chunk["text"]) of a chunk whose window has no white space at its ends
CharCount(m) == m.char_end - m.char_start

\* line 79: min(len(chunk["text"]) / 1000, 1.0), in thousandths
TextLengthScore(m) == IF CharCount(m) < 1000 THEN CharCount(m) ELSE 1000

\* lines 80-82: 0.7 * 1/(1 + score) + 0.3 * text_length_score, as the exact
\* fraction num/den counted in ten-thousandths
RerankScore(m) ==
    [num |-> 7000 + 3 * TextLengthScore(m) * (1 + m.score),
     den |-> 1 + m.score]

FracLess(a, b) == a.num * b.den < b.num * a.den

\* line 82: chunk["rerank_score"] = ...
Scored(candidates) ==
    [i \in 1..Len(candidates) |->
        [rerank_score |-> RerankScore(candidates[i])] @@ candidates[i]]

\* sorted() is stable, also with reverse=True: an entry goes behind every
\* entry whose key is at least its own
RECURSIVE InsertDesc(_, _)
InsertDesc(sorted, x) ==
    IF Len(sorted) = 0 THEN <<x>>
    ELSE IF FracLess(Head(sorted).rerank_score, x.rerank_score)
         THEN <<x>> \o sorted
         ELSE <<Head(sorted)>> \o InsertDesc(Tail(sorted), x)

\* the candidates are left in the order of stage one
RerankedKeepsOrder(candidates) == candidates

\* line 86: sorted(candidates, key=rerank_score, reverse=True)
RECURSIVE Reranked(_)
Reranked(candidates) ==
    IF Len(candidates) = 0 THEN <<>>
    ELSE InsertDesc(Reranked(SubSeq(candidates, 1, Len(candidates) - 1)),
                    candidates[Len(candidates)])

\* reranked[:top_k]
Take(s, n) == SubSeq(s, 1, IF n < Len(s) THEN n ELSE Len(s))

\* what the caller of retrieve_top_k makes of the list r.result:
\* retrieve_with_reranking (lines 71-89) returns [] for no candidates and
\* otherwise scores, sorts and truncates; ask (ask.py 36-49) works on the
\* list as it is
Deliver(caller, r) ==
    IF caller.op = "rerank"
    THEN [op |-> "rerank", status |-> "returned", query |-> r.query,
          top_k |-> caller.top_k, initial_k |-> r.top_k,
          document_ids |-> r.document_ids, candidates |-> r.result,
          result |-> IF Len(r.result) = 0 THEN <<>>
                     ELSE Take(Reranked(Scored(r.result)), caller.top_k)]
    ELSE IF caller.op = "ask"
    THEN [req_document_id |-> caller.document_id,
          req_document_ids |-> caller.document_ids] @@ [r EXCEPT !.op = "ask"]
    ELSE r

\* retrieve_top_k: search_index inside try/except, then the ranks
Retrieval(query, top_k, document_ids, encodeOk, caller) ==
    LET e == EnsureIndex(index, meta, model, diskIndex, diskMeta)
        xb == e.index.val
        mt == e.meta.val
        em == EmbedTexts(cache, e.model, <<query>>, TRUE,
                         ENABLE_CACHE, CACHE_SIZE, encodeOk)
    IN  /\ index' = e.index
        /\ meta' = e.meta
        /\ UNCHANGED <<Config, db, Disk, Threads>>
        /\ ~encodeOk => Len(xb) > 0 /\ em.encoded /\ faults < MaxFaults
        /\ faults' = IF encodeOk THEN faults ELSE faults + 1
        /\ IF IndexEmpty(xb)
           THEN /\ model' = e.model
                /\ UNCHANGED cache
                /\ ret' = Deliver(caller, [op |-> "retrieve", status |-> "returned",
                           query |-> query, top_k |-> top_k,
                           document_ids |-> document_ids, encoded |-> FALSE,
                           search |-> "returned", search_k |-> 0,
                           found |-> <<>>, result |-> <<>>])
           ELSE /\ model' = em.model
                /\ cache' = em.cache
                /\ IF em.status = "raised"
                   THEN ret' = Deliver(caller, [op |-> "retrieve", status |-> "returned",
                           query |-> query, top_k |-> top_k,
                                document_ids |-> document_ids, encoded |-> em.encoded,
                                search |-> "raised", search_k |-> 0,
                           found |-> <<>>, result |-> <<>>])
                   ELSE \E s \in IndexSearch(xb, em.out[1],
                                              SearchK(top_k, document_ids, Len(xb))) :
                           LET found == Walk(Pairs(s, xb, em.out[1]), mt,
                                              document_ids, top_k, <<>>)
                           IN  ret' = Deliver(caller, [op |-> "retrieve", status |-> "returned",
                                       query |-> query, top_k |-> top_k, document_ids |-> document_ids,
                                       encoded |-> em.encoded, search |-> "returned",
                                       search_k |-> SearchK(top_k, document_ids, Len(xb)),
                                       found |-> found, result |-> Ranked(found)])

\* a direct call of retrieve_top_k
RetrieveTopK(query, top_k, document_ids, encodeOk) ==
    Retrieval(query, top_k, document_ids, encodeOk, [op |-> "retrieve"])

\* a direct embed_texts call (embed_text and the profiling script use it)
EmbedTextsCall(texts, use_cache, encodeOk) ==
    LET em == EmbedTexts(cache, model, texts, use_cache,
                         ENABLE_CACHE, CACHE_SIZE, encodeOk)
    IN  /\ model' = em.model
        /\ cache' = em.cache
        /\ ret' = [op |-> "embed", texts |-> texts, use_cache |-> use_cache,
                   status |-> em.status, out |-> em.out, encoded |-> em.encoded,
                   evicted |-> em.evicted]
        /\ ~encodeOk => em.encoded /\ faults < MaxFaults
        /\ faults' = IF encodeOk THEN faults ELSE faults + 1
        /\ UNCHANGED <<index, meta, Config, db, Disk, Threads>>

ClearCache ==
    /\ cache' = <<>>
    /\ ret' = [op |-> "clear_cache"]
    /\ UNCHANGED <<model, index, meta, Config, db, Disk, faults, Threads>>

\* a call of _ensure_index on its own
EnsureIndexCall ==
    LET e == EnsureIndex(index, meta, model, diskIndex, diskMeta)
    IN  /\ index' = e.index
        /\ meta' = e.meta
        /\ model' = e.model
        /\ ret' = [op |-> "ensure", how |-> e.how]
        /\ UNCHANGED <<cache, Config, db, Disk, faults, Threads>>

\* admin reload_index: drop the resident pair, then _ensure_index
ReloadIndex ==
    LET e == EnsureIndex(None, None, model, diskIndex, diskMeta)
    IN  /\ index' = e.index
        /\ meta' = e.meta
        /\ model' = e.model
        /\ ret' = [op |-> "reload", how |-> e.how]
        /\ UNCHANGED <<cache, Config, db, Disk, faults, Threads>>

\* the process ends and a new one imports the module: lines 34-37
Restart ==
    /\ model' = "None"
    /\ index' = None
    /\ meta' = None
    /\ cache' = <<>>
    /\ ret' = [op |-> "restart"]
    /\ UNCHANGED <<Config, db, Disk, faults, Threads>>

\* ------------------------------------------------------------------------
\* Specifications
\* ------------------------------------------------------------------------
Fresh ==
    /\ model = "None"
    /\ index = None
    /\ meta = None
    /\ cache = <<>>
    /\ diskIndex = None
    /\ diskMeta = None
    /\ ret = [op |-> "init"]
    /\ faults = 0
    /\ NoCallInProgress
    /\ db = DocIds

Init ==
    /\ Fresh
    /\ ENABLE_CACHE = TRUE
    /\ CACHE_SIZE = MaxCacheSize

Add == \E chunks \in Batches, encodeOk \in BOOLEAN, outcome \in SaveOutcomes :
          EnsureIndexAndAdd(chunks, encodeOk, outcome)

Retrieve == \E query \in Texts, top_k \in 1..MaxTopK, document_ids \in Scopes :
               RetrieveTopK(query, top_k, document_ids, TRUE)

Next == Add \/ ReloadIndex \/ Restart \/ EnsureIndexCall

Spec == Init /\ [][Next]_vars

\* retrieval over every durable pair that earlier processes can leave behind:
\* the vectors of all chunks added so far, and the metadata of those whose
\* batch was saved completely (the first chunk always is, a metadata file
\* exists only after a complete save)
RECURSIVE Restrict(_, _, _)
Restrict(cs, keep, i) ==
    IF i > Len(cs) THEN <<>>
    ELSE (IF i \in keep THEN <<cs[i]>> ELSE <<>>) \o Restrict(cs, keep, i + 1)

InitSearch ==
    /\ model = "None"
    /\ index = None
    /\ meta = None
    /\ cache = <<>>
    /\ ret = [op |-> "init"]
    /\ faults = 0
    /\ NoCallInProgress
    /\ db = DocIds
    /\ ENABLE_CACHE = FALSE
    /\ CACHE_SIZE = MaxCacheSize
    /\ \E cs \in SeqsUpTo(Chunks, MaxStored) :
          \E keep \in SUBSET (1..Len(cs)) :
             /\ Len(cs) = 0 \/ 1 \in keep
             /\ IF Len(cs) = 0
                THEN diskIndex = None /\ diskMeta = None
                ELSE /\ diskIndex = Some(WriteIndex(IndexAdd(<<>>, ChunkTexts2Vecs(cs))))
                     /\ diskMeta = Some(PickleDump(MetaAppend(<<>>, Restrict(cs, keep, 1))))

NextSearch == Retrieve

SpecSearch == InitSearch /\ [][NextSearch]_vars

\* ingests followed by unscoped questions, with every save succeeding
SearchBatches == {b \in SeqsUpTo(Chunks, MaxBatch) : Len(b) > 0}

AddSaved == \E chunks \in SearchBatches : EnsureIndexAndAdd(chunks, TRUE, "ok")

SearchAll == \E query \in Texts, top_k \in 1..MaxTopK :
                RetrieveTopK(query, top_k, None, TRUE)

InitAddSearch ==
    /\ Fresh
    /\ ENABLE_CACHE = FALSE
    /\ CACHE_SIZE = MaxCacheSize

NextAddSearch == AddSaved \/ SearchAll

SpecAddSearch == InitAddSearch /\ [][NextAddSearch]_vars

\* retrieval whose query embedding can fail, over the pairs that earlier
\* processes saved
InitSearchFault ==
    /\ model = "None"
    /\ index = None
    /\ meta = None
    /\ cache = <<>>
    /\ ret = [op |-> "init"]
    /\ faults = 0
    /\ NoCallInProgress
    /\ db = DocIds
    /\ ENABLE_CACHE = TRUE
    /\ CACHE_SIZE = MaxCacheSize
    /\ \E cs \in SeqsUpTo(Chunks, MaxStored) :
          IF Len(cs) = 0
          THEN diskIndex = None /\ diskMeta = None
          ELSE /\ diskIndex = Some(WriteIndex(IndexAdd(<<>>, ChunkTexts2Vecs(cs))))
               /\ diskMeta = Some(PickleDump(MetaAppend(<<>>, cs)))

RetrieveFaulty ==
    \E query \in Texts, top_k \in 1..MaxTopK, document_ids \in Scopes,
       encodeOk \in BOOLEAN :
       RetrieveTopK(query, top_k, document_ids, encodeOk)

NextSearchFault == RetrieveFaulty

SpecSearchFault == InitSearchFault /\ [][NextSearchFault]_vars

\* start-up and reload over every content of the data directory: each file
\* absent, cut short, or complete with any stored content
DiskIndexFiles ==
    {None, Some(Truncated(WriteIndex(<<>>)))}
      \cup {Some(WriteIndex(IndexAdd(<<>>, ChunkTexts2Vecs(cs)))) :
                cs \in SeqsUpTo(StoreChunks, MaxStored)}

DiskMetaFiles ==
    {None, Some(Truncated(PickleDump(<<>>)))}
      \cup {Some(PickleDump(MetaAppend(<<>>, cs))) :
                cs \in SeqsUpTo(StoreChunks, MaxStored)}

InitRestore ==
    /\ model = "None"
    /\ index = None
    /\ meta = None
    /\ cache = <<>>
    /\ ret = [op |-> "init"]
    /\ faults = 0
    /\ NoCallInProgress
    /\ db = DocIds
    /\ ENABLE_CACHE = TRUE
    /\ CACHE_SIZE = MaxCacheSize
    /\ diskIndex \in DiskIndexFiles
    /\ diskMeta \in DiskMetaFiles

NextRestore == EnsureIndexCall \/ ReloadIndex \/ Restart

SpecRestore == InitRestore /\ [][NextRestore]_vars

\* the embedding provider alone, for every configuration
InitCache ==
    /\ Fresh
    /\ ENABLE_CACHE \in BOOLEAN
    /\ CACHE_SIZE \in 1..MaxCacheSize

Embed == \E texts \in SeqsUpTo(CacheTexts, 2), use_cache \in BOOLEAN,
            encodeOk \in BOOLEAN :
            EmbedTextsCall(texts, use_cache, encodeOk)

NextCache == Embed \/ ClearCache

SpecCache == InitCache /\ [][NextCache]_vars

\* questions asked again and again of a saved index, with the cache on
InitQueryCache ==
    /\ model = "None"
    /\ index = None
    /\ meta = None
    /\ cache = <<>>
    /\ ret = [op |-> "init"]
    /\ faults = 0
    /\ NoCallInProgress
    /\ db = DocIds
    /\ ENABLE_CACHE = TRUE
    /\ CACHE_SIZE \in 1..MaxCacheSize
    /\ \E cs \in SeqsUpTo(StoreChunks, MaxStored) :
          /\ Len(cs) > 0
          /\ diskIndex = Some(WriteIndex(IndexAdd(<<>>, ChunkTexts2Vecs(cs))))
          /\ diskMeta = Some(PickleDump(MetaAppend(<<>>, cs)))

Ask == \E query \in CacheTexts, top_k \in 1..MaxTopK :
          RetrieveTopK(query, top_k, None, TRUE)

NextQueryCache == Ask \/ ClearCache

SpecQueryCache == InitQueryCache /\ [][NextQueryCache]_vars

\* ------------------------------------------------------------------------
\* Scoped search on an index dominated by another document
\* ------------------------------------------------------------------------
\* the texts of the chunks of the large document: pairwise different, none
\* of them embedded like text 2
SkewText(i) == 7 * ((i + 2) \div 3) + <<0, 1, 3>>[(i % 3) + 1]

RECURSIVE SkewChunks(_)
SkewChunks(n) ==
    IF n = 0 THEN <<>> ELSE Append(SkewChunks(n - 1), Chunk("B", SkewText(n)))

SkewQueries == {2, 7}

\* no scope, the empty scope, and the scope of the small document
SkewScopes == {None, Some({}), Some({"A"})}

\* one chunk of document A was ingested, then n chunks of document B
InitSkew ==
    /\ model = "None"
    /\ index = None
    /\ meta = None
    /\ cache = <<>>
    /\ ret = [op |-> "init"]
    /\ faults = 0
    /\ NoCallInProgress
    /\ db = DocIds
    /\ ENABLE_CACHE = FALSE
    /\ CACHE_SIZE = MaxCacheSize
    /\ \E n \in 0..CANDIDATE_MULTIPLIER :
          LET cs == <<Chunk("A", 2)>> \o SkewChunks(n)
          IN  /\ diskIndex = Some(WriteIndex(IndexAdd(<<>>, ChunkTexts2Vecs(cs))))
              /\ diskMeta = Some(PickleDump(MetaAppend(<<>>, cs)))

SearchSkew == \E query \in SkewQueries, top_k \in 1..MaxTopK, document_ids \in SkewScopes :
                 RetrieveTopK(query, top_k, document_ids, TRUE)

NextSkew == SearchSkew

SpecSkew == InitSkew /\ [][NextSkew]_vars

\* ------------------------------------------------------------------------
\* Threads: concurrent callers, one action per statement
\* ------------------------------------------------------------------------
ProcDoc(p) == IF p = 1 THEN "A" ELSE "B"

\* the chunks of one ingested document (ingest.py gives each upload its own id)
ProcBatches(p) == {b \in SeqsUpTo({Chunk(ProcDoc(p), t) : t \in Texts}, MaxBatch) : Len(b) > 0}

Goto(p, l) == pc' = [pc EXCEPT ![p] = l]

\* ensure_index_and_add, lines 164-171: a non-empty batch enters _ensure_index
CallAdd(p, chunks) ==
    /\ pc[p] = "idle"
    /\ Len(chunks) > 0
    /\ loc' = [loc EXCEPT ![p] = [IdleLoc EXCEPT !.op = "add", !.chunks = chunks]]
    /\ Goto(p, "e76")
    /\ UNCHANGED <<model, index, meta, cache, Config, db, Disk, ret, faults,
                   modelBuilds, pairInits>>

\* search_index, lines 199-204
CallSearch(p, query, top_k, document_ids) ==
    /\ pc[p] = "idle"
    /\ loc' = [loc EXCEPT ![p] = [IdleLoc EXCEPT !.op = "search", !.query = query,
                                     !.top_k = top_k, !.document_ids = document_ids]]
    /\ Goto(p, "e76")
    /\ UNCHANGED <<model, index, meta, cache, Config, db, Disk, ret, faults,
                   modelBuilds, pairInits>>

\* embed_texts called directly with one text, lines 115-120
CallEmbed(p, text) ==
    /\ pc[p] = "idle"
    /\ loc' = [loc EXCEPT ![p] = [IdleLoc EXCEPT !.op = "embed", !.texts = <<text>>,
                                     !.use_cache = TRUE]]
    /\ Goto(p, "c122")
    /\ UNCHANGED <<model, index, meta, cache, Config, db, Disk, ret, faults,
                   modelBuilds, pairInits>>

AfterEnsure(p) == IF loc[p].op = "add" THEN "a178" ELSE "s206"

\* line 76
E76(p) ==
    /\ pc[p] = "e76"
    /\ Goto(p, IF IsSome(index) /\ IsSome(meta) THEN AfterEnsure(p) ELSE "e82")
    /\ UNCHANGED <<model, index, meta, cache, Config, db, Disk, ret, faults, loc,
                   modelBuilds, pairInits>>

\* lines 79-82
E82(p) ==
    /\ pc[p] = "e82"
    /\ Goto(p, IF IsSome(diskIndex) /\ IsSome(diskMeta) THEN "e88" ELSE "e100")
    /\ UNCHANGED <<model, index, meta, cache, Config, db, Disk, ret, faults, loc,
                   modelBuilds, pairInits>>

\* line 88, and lines 95-96 when the read fails
E88(p) ==
    /\ pc[p] = "e88"
    /\ IF IndexReadable(diskIndex.val)
       THEN index' = Some(ReadIndex(diskIndex.val)) /\ Goto(p, "e90")
       ELSE UNCHANGED index /\ Goto(p, "e100")
    /\ UNCHANGED <<model, meta, cache, Config, db, Disk, ret, faults, loc,
                   modelBuilds, pairInits>>

\* lines 89-94, and lines 95-96 when the load fails
E90(p) ==
    /\ pc[p] = "e90"
    /\ IF MetaReadable(diskMeta.val)
       THEN /\ meta' = Some(PickleLoad(diskMeta.val))
            /\ pairInits' = pairInits + 1
            /\ Goto(p, AfterEnsure(p))
       ELSE UNCHANGED <<meta, pairInits>> /\ Goto(p, "e100")
    /\ UNCHANGED <<model, index, cache, Config, db, Disk, ret, faults, loc, modelBuilds>>

\* line 100: _get_model(), up to its test of _model (line 47)
E100(p) ==
    /\ pc[p] = "e100"
    /\ IF model = "None"
       THEN /\ loc' = [loc EXCEPT ![p].gret = "e102"]
            /\ Goto(p, "g52")
       ELSE UNCHANGED loc /\ Goto(p, "e102")
    /\ UNCHANGED <<model, index, meta, cache, Config, db, Disk, ret, faults,
                   modelBuilds, pairInits>>

\* _get_model, lines 52-66: construct the model, bind _model, return
G52(p) ==
    /\ pc[p] = "g52"
    /\ model' = "SentenceTransformer"
    /\ modelBuilds' = modelBuilds + 1
    /\ Goto(p, loc[p].gret)
    /\ UNCHANGED <<index, meta, cache, Config, db, Disk, ret, faults, loc, pairInits>>

\* lines 101-102
E102(p) ==
    /\ pc[p] = "e102"
    /\ index' = Some(<<>>)
    /\ Goto(p, "e103")
    /\ UNCHANGED <<model, meta, cache, Config, db, Disk, ret, faults, loc,
                   modelBuilds, pairInits>>

\* lines 103-104
E103(p) ==
    /\ pc[p] = "e103"
    /\ meta' = Some(<<>>)
    /\ pairInits' = pairInits + 1
    /\ Goto(p, AfterEnsure(p))
    /\ UNCHANGED <<model, index, cache, Config, db, Disk, ret, faults, loc, modelBuilds>>

\* lines 173-178: embed_texts(texts, use_cache=False) is entered
A178(p) ==
    /\ pc[p] = "a178"
    /\ loc' = [loc EXCEPT ![p].texts = ChunkTexts(loc[p].chunks),
                          ![p].use_cache = FALSE, ![p].eret = "a182"]
    /\ Goto(p, "c122")
    /\ UNCHANGED <<model, index, meta, cache, Config, db, Disk, ret, faults,
                   modelBuilds, pairInits>>

\* embed_texts line 122: _get_model(), up to its test of _model (line 47)
C122(p) ==
    /\ pc[p] = "c122"
    /\ IF model = "None"
       THEN /\ loc' = [loc EXCEPT ![p].gret = "c125"]
            /\ Goto(p, "g52")
       ELSE UNCHANGED loc /\ Goto(p, "c125")
    /\ UNCHANGED <<model, index, meta, cache, Config, db, Disk, ret, faults,
                   modelBuilds, pairInits>>

Eligible(p) == loc[p].use_cache /\ ENABLE_CACHE /\ Len(loc[p].texts) = 1

\* lines 125-127: the hit check
C125(p) ==
    /\ pc[p] = "c125"
    /\ IF Eligible(p)
       THEN /\ loc' = [loc EXCEPT ![p].hash = HashText(loc[p].texts[1])]
            /\ Goto(p, IF CacheHas(cache, HashText(loc[p].texts[1]))
                       THEN "c129" ELSE "c134")
       ELSE UNCHANGED loc /\ Goto(p, "c134")
    /\ UNCHANGED <<model, index, meta, cache, Config, db, Disk, ret, faults,
                   modelBuilds, pairInits>>

\* line 129: return the cached vector; KeyError when the key is gone
C129(p) ==
    /\ pc[p] = "c129"
    /\ IF CacheHas(cache, loc[p].hash)
       THEN /\ loc' = [loc EXCEPT ![p].emb = <<CacheGet(cache, loc[p].hash)>>]
            /\ Goto(p, loc[p].eret)
       ELSE UNCHANGED loc /\ Goto(p, "error")
    /\ UNCHANGED <<model, index, meta, cache, Config, db, Disk, ret, faults,
                   modelBuilds, pairInits>>

\* lines 134-146: encode, then either return or go on to store the vector
C134(p) ==
    /\ pc[p] = "c134"
    /\ loc' = [loc EXCEPT ![p].emb = [i \in 1..Len(loc[p].texts) |->
                                         EmbedVec(loc[p].texts[i])],
                          ![p].hash = IF Eligible(p) THEN HashText(loc[p].texts[1])
                                      ELSE 0]
    /\ Goto(p, IF Eligible(p) THEN "c148" ELSE loc[p].eret)
    /\ UNCHANGED <<model, index, meta, cache, Config, db, Disk, ret, faults,
                   modelBuilds, pairInits>>

\* line 148
C148(p) ==
    /\ pc[p] = "c148"
    /\ Goto(p, IF Len(cache) >= CACHE_SIZE THEN "c149" ELSE "c150")
    /\ UNCHANGED <<model, index, meta, cache, Config, db, Disk, ret, faults, loc,
                   modelBuilds, pairInits>>

\* line 149: pop the first key; StopIteration when the dict is empty
C149(p) ==
    /\ pc[p] = "c149"
    /\ IF Len(cache) > 0
       THEN cache' = Tail(cache) /\ Goto(p, "c150")
       ELSE UNCHANGED cache /\ Goto(p, "error")
    /\ UNCHANGED <<model, index, meta, Config, db, Disk, ret, faults, loc,
                   modelBuilds, pairInits>>

\* lines 150-153
C150(p) ==
    /\ pc[p] = "c150"
    /\ cache' = DictSet(cache, loc[p].hash, loc[p].emb[1])
    /\ Goto(p, loc[p].eret)
    /\ UNCHANGED <<model, index, meta, Config, db, Disk, ret, faults, loc,
                   modelBuilds, pairInits>>

\* an exception leaves the call
Raise(p) ==
    /\ pc[p] = "error"
    /\ loc' = [loc EXCEPT ![p] = IdleLoc]
    /\ Goto(p, "idle")
    /\ UNCHANGED <<model, index, meta, cache, Config, db, Disk, ret, faults,
                   modelBuilds, pairInits>>

\* line 182
A182(p) ==
    /\ pc[p] = "a182"
    /\ index' = Some(IndexAdd(index.val, loc[p].emb))
    /\ loc' = [loc EXCEPT ![p].i = 1]
    /\ Goto(p, "a185")
    /\ UNCHANGED <<model, meta, cache, Config, db, Disk, ret, faults,
                   modelBuilds, pairInits>>

\* lines 184-193: one iteration of the loop
A185(p) ==
    /\ pc[p] = "a185"
    /\ meta' = Some(MetaAppend(meta.val, <<loc[p].chunks[loc[p].i]>>))
    /\ loc' = [loc EXCEPT ![p].i = loc[p].i + 1]
    /\ Goto(p, IF loc[p].i = Len(loc[p].chunks) THEN "a264" ELSE "a185")
    /\ UNCHANGED <<model, index, cache, Config, db, Disk, ret, faults,
                   modelBuilds, pairInits>>

\* _save_index line 264
A264(p) ==
    /\ pc[p] = "a264"
    /\ diskIndex' = Some(WriteIndex(index.val))
    /\ Goto(p, "a265")
    /\ UNCHANGED <<model, index, meta, cache, Config, db, diskMeta, ret, faults, loc,
                   modelBuilds, pairInits>>

\* _save_index lines 265-267, then lines 195-196
A265(p) ==
    /\ pc[p] = "a265"
    /\ diskMeta' = Some(PickleDump(meta.val))
    /\ loc' = [loc EXCEPT ![p] = IdleLoc]
    /\ Goto(p, "returned")
    /\ UNCHANGED <<model, index, meta, cache, Config, db, diskIndex, ret, faults,
                   modelBuilds, pairInits>>

\* lines 206-208
S206(p) ==
    /\ pc[p] = "s206"
    /\ IF IndexEmpty(index.val)
       THEN loc' = [loc EXCEPT ![p] = IdleLoc] /\ Goto(p, "returned")
       ELSE UNCHANGED loc /\ Goto(p, "s210")
    /\ UNCHANGED <<model, index, meta, cache, Config, db, Disk, ret, faults,
                   modelBuilds, pairInits>>

\* line 210: embed_texts([query], use_cache=True) is entered
S210(p) ==
    /\ pc[p] = "s210"
    /\ loc' = [loc EXCEPT ![p].texts = <<loc[p].query>>,
                          ![p].use_cache = TRUE, ![p].eret = "s213"]
    /\ Goto(p, "c122")
    /\ UNCHANGED <<model, index, meta, cache, Config, db, Disk, ret, faults,
                   modelBuilds, pairInits>>

\* line 213
S213(p) ==
    /\ pc[p] = "s213"
    /\ loc' = [loc EXCEPT ![p].search_k =
                  SearchK(loc[p].top_k, loc[p].document_ids, Len(index.val))]
    /\ Goto(p, "s220")
    /\ UNCHANGED <<model, index, meta, cache, Config, db, Disk, ret, faults,
                   modelBuilds, pairInits>>

\* line 220
S220(p) ==
    /\ pc[p] = "s220"
    /\ \E s \in IndexSearch(index.val, loc[p].emb[1], loc[p].search_k) :
          loc' = [loc EXCEPT ![p].cands = Pairs(s, index.val, loc[p].emb[1]),
                             ![p].i = 1, ![p].results = <<>>]
    /\ Goto(p, "s225")
    /\ UNCHANGED <<model, index, meta, cache, Config, db, Disk, ret, faults,
                   modelBuilds, pairInits>>

\* lines 225-255: one iteration of the loop, or the return after the loop
S225(p) ==
    /\ pc[p] = "s225"
    /\ IF loc[p].i > Len(loc[p].cands)
       THEN loc' = [loc EXCEPT ![p] = IdleLoc] /\ Goto(p, "returned")
       ELSE LET c == loc[p].cands[loc[p].i]
                more == Walk(<<c>>, meta.val, loc[p].document_ids, 1, loc[p].results)
            IN  IF Len(more) >= loc[p].top_k
                THEN loc' = [loc EXCEPT ![p] = IdleLoc] /\ Goto(p, "returned")
                ELSE /\ loc' = [loc EXCEPT ![p].i = loc[p].i + 1,
                                           ![p].results = more]
                     /\ UNCHANGED pc
    /\ UNCHANGED <<model, index, meta, cache, Config, db, Disk, ret, faults,
                   modelBuilds, pairInits>>

\* the statements of _ensure_index and _get_model
EnsureStep(p) ==
    \/ E76(p) \/ E82(p) \/ E88(p) \/ E90(p) \/ E100(p) \/ G52(p)
    \/ E102(p) \/ E103(p)

\* the statements of ensure_index_and_add
AddStep(p) == A178(p) \/ A182(p) \/ A185(p) \/ A264(p) \/ A265(p)

\* the statements of search_index
SearchStep(p) == S206(p) \/ S210(p) \/ S213(p) \/ S220(p) \/ S225(p)

\* the statements of embed_texts that run when the call is not cache-eligible
EmbedStep(p) == C122(p) \/ C125(p) \/ C134(p)

\* the statements of embed_texts that touch the cache
CacheStep(p) == C129(p) \/ C148(p) \/ C149(p) \/ C150(p) \/ Raise(p)

\* concurrent adds and searches: every thread serves one request ("idle" to
\* "returned"); the cache is switched off by configuration
InitConc ==
    /\ Fresh
    /\ ENABLE_CACHE = FALSE
    /\ CACHE_SIZE = MaxCacheSize

NextConc ==
    \E p \in Procs :
        \/ \E chunks \in ProcBatches(p) : CallAdd(p, chunks)
        \/ \E query \in Texts, top_k \in 1..MaxTopK, document_ids \in Scopes :
              CallSearch(p, query, top_k, document_ids)
        \/ EnsureStep(p) \/ AddStep(p) \/ SearchStep(p) \/ EmbedStep(p)

SpecConc == InitConc /\ [][NextConc]_vars

\* concurrent single-text embed_texts calls on the cache; a thread makes
\* one call after the other
InitConcCache ==
    /\ Fresh
    /\ ENABLE_CACHE = TRUE
    /\ CACHE_SIZE \in 1..MaxCacheSize

NextConcCache ==
    \E p \in Procs :
        \/ \E text \in CacheTexts : CallEmbed(p, text)
        \/ G52(p) \/ EmbedStep(p) \/ CacheStep(p)

SpecConcCache == InitConcCache /\ [][NextConcCache]_vars

\* ------------------------------------------------------------------------
\* chunk_and_store
\* ------------------------------------------------------------------------
CHUNK_SIZE == 1500
OVERLAP == 300
MIN_CHUNK_LEN == 50

\* A page text is kept as its runs of whitespace and of other characters:
\* a sequence of [ws, len] records, kinds alternating, every len > 0.
RunLens == {40, 2000}

Runs == [ws : BOOLEAN, len : RunLens]

PageTexts ==
    {t \in SeqsUpTo(Runs, MaxRuns) :
        \A i \in 1..(Len(t) - 1) : t[i].ws # t[i + 1].ws}

\* extract_pdf_pages numbers the pages from 1
PageLists ==
    {[k \in 1..Len(ts) |-> [page_no |-> k, text |-> ts[k]]] :
        ts \in SeqsUpTo(PageTexts, MaxPages)}

Min(a, b) == IF a < b THEN a ELSE b

Max(a, b) == IF a > b THEN a ELSE b

\* len(text)
RECURSIVE TextLen(_)
TextLen(t) == IF Len(t) = 0 THEN 0 ELSE Head(t).len + TextLen(Tail(t))

\* text[s:e] for 0 <= s
RECURSIVE Slice(_, _, _)
Slice(t, s, e) ==
    IF Len(t) = 0 THEN <<>>
    ELSE LET r == Head(t)
             take == Min(e, r.len) - Max(s, 0)
         IN  (IF take > 0 THEN <<[ws |-> r.ws, len |-> take]>> ELSE <<>>)
                \o Slice(Tail(t), s - r.len, e - r.len)

\* text.strip()
Strip(t) ==
    LET a == IF Len(t) > 0 /\ t[1].ws THEN Tail(t) ELSE t
    IN  IF Len(a) > 0 /\ a[Len(a)].ws THEN SubSeq(a, 1, Len(a) - 1) ELSE a

\* line 38: end = min(start + CHUNK_SIZE, text_len)
WindowEndUnclamped(start, text_len) == start + CHUNK_SIZE

WindowEnd(start, text_len) == Min(start + CHUNK_SIZE, text_len)

\* line 42: len(chunk_text.strip()) < 50
TooShortNever(chunk_text) == FALSE

TooShort(chunk_text) == TextLen(Strip(chunk_text)) < MIN_CHUNK_LEN

\* line 60: start = end - OVERLAP
NextStartNoOverlap(end) == end

\* the overlap is as large as the window
NextStartSameWindow(end) == end - CHUNK_SIZE

NextStart(end) == end - OVERLAP

\* lines 45-51
NewChunk(document_id, page_no, start, end, chunk_text) ==
    [document_id |-> document_id, page_no |-> page_no,
     char_start |-> start, char_end |-> end, text |-> chunk_text]

\* lines 67-68: chunks_data[i]["chunk_id"] = chunk_id, ids as a fresh table
\* numbers its rows
WithChunkIds(cd) ==
    [i \in 1..Len(cd) |->
        [chunk_id |-> i, document_id |-> cd[i].document_id,
         page_no |-> cd[i].page_no, char_start |-> cd[i].char_start,
         char_end |-> cd[i].char_end, text |-> cd[i].text]]

\* lines 27-34: the head of the page loop
K27(p) ==
    /\ pc[p] = "k27"
    /\ IF loc[p].page_i > Len(loc[p].pages)
       THEN UNCHANGED loc /\ Goto(p, "k63")
       ELSE IF Len(Strip(loc[p].pages[loc[p].page_i].text)) = 0
       THEN /\ loc' = [loc EXCEPT ![p].page_i = loc[p].page_i + 1]
            /\ Goto(p, "k27")
       ELSE /\ loc' = [loc EXCEPT ![p].start = 0]
            /\ Goto(p, "k37")
    /\ UNCHANGED <<model, index, meta, cache, Config, db, Disk, ret, faults,
                   modelBuilds, pairInits>>

\* lines 37-60: one iteration of the window loop
K37(p) ==
    /\ pc[p] = "k37"
    /\ LET page == loc[p].pages[loc[p].page_i]
           text_len == TextLen(page.text)
           start == loc[p].start
           end == WindowEnd(start, text_len)
           chunk_text == Slice(page.text, start, end)
           chunk == NewChunk(loc[p].document_id, page.page_no, start, end,
                             chunk_text)
       IN  IF ~(start < text_len) \/ TooShort(chunk_text)
           THEN /\ loc' = [loc EXCEPT ![p].page_i = loc[p].page_i + 1]
                /\ Goto(p, "k27")
           ELSE IF end = text_len
           THEN /\ loc' = [loc EXCEPT ![p].chunks_data =
                                         Append(loc[p].chunks_data, chunk),
                                      ![p].page_i = loc[p].page_i + 1]
                /\ Goto(p, "k27")
           ELSE /\ loc' = [loc EXCEPT ![p].chunks_data =
                                         Append(loc[p].chunks_data, chunk),
                                      ![p].start = NextStart(end)]
                /\ Goto(p, "k37")
    /\ UNCHANGED <<model, index, meta, cache, Config, db, Disk, ret, faults,
                   modelBuilds, pairInits>>

\* lines 63-77: create_chunks stores the rows and gives their ids, or raises
K63(p, dbOk) ==
    /\ pc[p] = "k63"
    /\ ~dbOk => Len(loc[p].chunks_data) > 0 /\ faults < MaxFaults
    /\ faults' = IF dbOk THEN faults ELSE faults + 1
    /\ ret' = IF dbOk
              THEN [op |-> "chunk", status |-> "returned",
                    document_id |-> loc[p].document_id, pages |-> loc[p].pages,
                    chunks |-> WithChunkIds(loc[p].chunks_data)]
              ELSE [op |-> "chunk", status |-> "raised",
                    document_id |-> loc[p].document_id, pages |-> loc[p].pages,
                    chunks |-> <<>>]
    /\ loc' = [loc EXCEPT ![p] = IdleLoc]
    /\ Goto(p, "returned")
    /\ UNCHANGED <<model, index, meta, cache, Config, db, Disk, modelBuilds, pairInits>>

\* one upload: chunk_and_store(doc_id, pages) has been entered (lines 23-25)
InitChunk ==
    /\ model = "None"
    /\ index = None
    /\ meta = None
    /\ cache = <<>>
    /\ diskIndex = None
    /\ diskMeta = None
    /\ ret = [op |-> "init"]
    /\ faults = 0
    /\ modelBuilds = 0
    /\ pairInits = 0
    /\ db = DocIds
    /\ ENABLE_CACHE = TRUE
    /\ CACHE_SIZE = MaxCacheSize
    /\ pc = [p \in Procs |-> IF p = 1 THEN "k27" ELSE "idle"]
    /\ \E pages \in PageLists :
          loc = [p \in Procs |->
                    IF p = 1
                    THEN [IdleLoc EXCEPT !.op = "chunk", !.document_id = "A",
                                         !.pages = pages, !.page_i = 1]
                    ELSE IdleLoc]

NextChunk == K27(1) \/ K37(1) \/ (\E dbOk \in BOOLEAN : K63(1, dbOk))

SpecChunk == InitChunk /\ [][NextChunk]_vars

\* the coroutine of one call runs on until it returns or raises
SpecChunkFair == SpecChunk /\ WF_vars(NextChunk)

\* ------------------------------------------------------------------------
\* retrieve_with_reranking
\* ------------------------------------------------------------------------
\* a chunk that fills its window
LongChunk(d, t) == [Chunk(d, t) EXCEPT !.char_end = CHUNK_SIZE]

\* short and long chunks; text 8 is embedded like text 1, text 9 like text 2
RerankChunks == {Chunk("A", 1), LongChunk("A", 9), LongChunk("B", 8)}

RerankQueries == {2, 3}

\* no scope and the scope of one document
RerankScopes == {None, Some({"A"})}

RetrieveWithReranking(query, top_k, initial_k, document_ids, encodeOk) ==
    Retrieval(query, initial_k, document_ids, encodeOk,
              [op |-> "rerank", top_k |-> top_k])

InitRerank ==
    /\ model = "None"
    /\ index = None
    /\ meta = None
    /\ cache = <<>>
    /\ ret = [op |-> "init"]
    /\ faults = 0
    /\ NoCallInProgress
    /\ db = DocIds
    /\ ENABLE_CACHE = FALSE
    /\ CACHE_SIZE = MaxCacheSize
    /\ \E cs \in SeqsUpTo(RerankChunks, MaxStored) :
          IF Len(cs) = 0
          THEN diskIndex = None /\ diskMeta = None
          ELSE /\ diskIndex = Some(WriteIndex(IndexAdd(<<>>, ChunkTexts2Vecs(cs))))
               /\ diskMeta = Some(PickleDump(MetaAppend(<<>>, cs)))

Rerank == \E query \in RerankQueries, top_k \in 1..MaxTopK,
             initial_k \in 1..MaxInitialK, document_ids \in RerankScopes :
             RetrieveWithReranking(query, top_k, initial_k, document_ids, TRUE)

NextRerank == Rerank

SpecRerank == InitRerank /\ [][NextRerank]_vars

\* ------------------------------------------------------------------------
\* The ask endpoint: request normalisation and retrieval
\* ------------------------------------------------------------------------
\* AskRequest.normalize_document_ids: a given list wins, also an empty one;
\* otherwise a non-empty document_id becomes a one-element list
NormalizeDocumentIds(document_id, document_ids) ==
    IF ~IsNone(document_ids) THEN document_ids
    ELSE IF IsSome(document_id) /\ document_id.val # ""
         THEN Some({document_id.val})
         ELSE None

\* the document_id and document_ids fields a request can carry
AskDocumentId == {None, Some(""), Some("A")}
AskDocumentIds == {None, Some({}), Some({"B"})}

\* ask, lines 36-49: doc_ids = req.document_ids; retrieve_top_k(question, doc_ids, top_k)
AskCall(question, document_id, document_ids, top_k) ==
    Retrieval(question, top_k, NormalizeDocumentIds(document_id, document_ids), TRUE,
              [op |-> "ask", document_id |-> document_id,
               document_ids |-> document_ids])

InitAsk ==
    /\ model = "None"
    /\ index = None
    /\ meta = None
    /\ cache = <<>>
    /\ ret = [op |-> "init"]
    /\ faults = 0
    /\ NoCallInProgress
    /\ db = DocIds
    /\ ENABLE_CACHE = FALSE
    /\ CACHE_SIZE = MaxCacheSize
    /\ \E cs \in SeqsUpTo(StoreChunks, MaxStored) :
          IF Len(cs) = 0
          THEN diskIndex = None /\ diskMeta = None
          ELSE /\ diskIndex = Some(WriteIndex(IndexAdd(<<>>, ChunkTexts2Vecs(cs))))
               /\ diskMeta = Some(PickleDump(MetaAppend(<<>>, cs)))

AskQuestion == \E question \in Texts, top_k \in 1..MaxTopK,
                  document_id \in AskDocumentId, document_ids \in AskDocumentIds :
                  AskCall(question, document_id, document_ids, top_k)

NextAsk == AskQuestion

SpecAsk == InitAsk /\ [][NextAsk]_vars

\* ------------------------------------------------------------------------
\* Deleting a document
\* ------------------------------------------------------------------------
\* crud.delete_document: the rows of the document leave the database and the
\* call tells whether a document row was deleted; a database error rolls
\* back and raises. ingest.delete_document answers 404 when nothing was
\* deleted. Neither touches the index module.
DeleteDocument(document_id, dbOk) ==
    /\ ~dbOk => faults < MaxFaults
    /\ faults' = IF dbOk THEN faults ELSE faults + 1
    /\ db' = IF dbOk THEN db \ {document_id} ELSE db
    /\ ret' = [op |-> "delete", document_id |-> document_id,
               status |-> IF ~dbOk THEN "raised"
                          ELSE IF document_id \in db THEN "deleted"
                          ELSE "not_found"]
    /\ UNCHANGED <<model, index, meta, cache, Config, Disk, Threads>>

InitDelete ==
    /\ model = "None"
    /\ index = None
    /\ meta = None
    /\ cache = <<>>
    /\ ret = [op |-> "init"]
    /\ faults = 0
    /\ NoCallInProgress
    /\ db = DocIds
    /\ ENABLE_CACHE = FALSE
    /\ CACHE_SIZE = MaxCacheSize
    /\ \E cs \in SeqsUpTo(StoreChunks, MaxStored) :
          IF Len(cs) = 0
          THEN diskIndex = None /\ diskMeta = None
          ELSE /\ diskIndex = Some(WriteIndex(IndexAdd(<<>>, ChunkTexts2Vecs(cs))))
               /\ diskMeta = Some(PickleDump(MetaAppend(<<>>, cs)))

Delete == \E document_id \in DocIds, dbOk \in BOOLEAN :
             DeleteDocument(document_id, dbOk)

NextDelete == Delete \/ Retrieve \/ Restart

SpecDelete == InitDelete /\ [][NextDelete]_vars

\* ------------------------------------------------------------------------
\* Properties
\* ------------------------------------------------------------------------
AddReturned == ret.op = "add" /\ ret.status = "returned" /\ Len(ret.chunks) > 0

\* C1: after every completed ensure_index_and_add of a single caller the
\* resident metadata list is as long as the resident index has vectors.
C1_MetaLengthEqualsVectorCount ==
    AddReturned => Len(meta.val) = Len(index.val)

\* C2: a retrieval with a non-empty document scope S returns, from
\* search_index and from retrieve_top_k, only chunks whose document_id is
\* in S.
C2_ScopedResultsInScope ==
    (ret.op = "retrieve" /\ Truthy(ret.document_ids)) =>
        /\ \A i \in 1..Len(ret.found) :
              ret.found[i].document_id \in ret.document_ids.val
        /\ \A i \in 1..Len(ret.result) :
              ret.result[i].document_id \in ret.document_ids.val

\* a scoped retrieval returned a chunk while the index also holds a chunk of
\* a document outside the scope
C2_Witness ==
    /\ ret.op = "retrieve"
    /\ Truthy(ret.document_ids)
    /\ Len(ret.result) >= 1
    /\ \E p \in 1..Len(meta.val) :
          meta.val[p].document_id \notin ret.document_ids.val

\* C3: a completed add on a pair of length n puts the embedding of chunks[i]
\* at vector position n+i and the metadata of chunks[i] at metadata position
\* n+i, so that every metadata entry describes the chunk whose vector has
\* the same position.
C3_AddKeepsPositionsAligned ==
    AddReturned =>
        /\ Len(index.val) = ret.n + Len(ret.chunks)
        /\ Len(meta.val) = ret.n + Len(ret.chunks)
        /\ \A i \in 1..Len(ret.chunks) :
              /\ index.val[ret.n + i] = EmbedVec(ret.chunks[i].text)
              /\ meta.val[ret.n + i] = MetaEntry(ret.chunks[i])
        /\ \A p \in 1..Len(index.val) :
              index.val[p] = EmbedVec(meta.val[p].text)

\* C4: the embedding cache never holds more than CACHE_SIZE entries.
C4_CacheWithinCapacity == Len(cache) <= CACHE_SIZE

\* a single-text miss was stored in a cache that was full
C4_Witness ==
    /\ ret.op = "embed"
    /\ ret.evicted # 0
    /\ Len(cache) = CACHE_SIZE

\* C5: eviction is first-in first-out: a call that does not invoke the model
\* (a hit) leaves the cache and its order as they are, and a single-text miss
\* stored in a full cache removes exactly the entry at the head of the
\* insertion order, keeps the order of the others and puts the new entry last.
C5_FifoEviction ==
    [][ret'.op = "embed" /\ ret'.status = "returned" =>
          LET stored == ret'.use_cache /\ ENABLE_CACHE /\ Len(ret'.texts) = 1
                           /\ ret'.encoded
              entry == [key |-> HashText(ret'.texts[1]), vec |-> ret'.out[1]]
          IN  IF ~stored THEN cache' = cache
              ELSE IF Len(cache) >= CACHE_SIZE
              THEN /\ ret'.evicted = cache[1].key
                   /\ cache' = Append(Tail(cache), entry)
              ELSE /\ ret'.evicted = 0
                   /\ cache' = Append(cache, entry)]_vars

\* capacity+1 distinct texts went through a cache of capacity >= 2: the
\* first-inserted key is gone and the cache is full
C5_Witness ==
    /\ ret.op = "embed"
    /\ ret.evicted # 0
    /\ CACHE_SIZE >= 2
    /\ Len(cache) = CACHE_SIZE
    /\ ~CacheHas(cache, ret.evicted)
    /\ cache[Len(cache)].key = HashText(ret.texts[1])

\* the statements of search_index that read _index or _meta
SearchReads == {"s206", "s213", "s220", "s225"}

\* C6: no search that runs concurrently with an add is ever at a statement
\* reading the pair while the index vector count differs from the metadata
\* length (here even when model and pair were initialised only once).
C6_SearchSeesEqualLengths ==
    (modelBuilds <= 1 /\ pairInits <= 1) =>
        \A p \in Procs :
            (loc[p].op = "search" /\ pc[p] \in SearchReads) =>
                Len(index.val) = Len(meta.val)

\* C7: once the concurrent adds have returned, metadata length equals vector
\* count and every metadata entry sits at the position of the vector of its
\* own chunk (here even when model and pair were initialised only once).
C7_ConcurrentAddsStayAligned ==
    (modelBuilds <= 1 /\ pairInits <= 1 /\ \A p \in Procs : pc[p] = "returned") =>
        /\ Len(meta.val) = Len(index.val)
        /\ \A i \in 1..Len(index.val) :
              index.val[i] = EmbedVec(meta.val[i].text)

\* C8: with concurrent first calls the embedding model is constructed once
\* and the index/metadata pair is loaded or created once.
C8_InitialisedExactlyOnce ==
    modelBuilds <= 1 /\ pairInits <= 1

\* C9: with concurrent single-text embed_texts calls the cache never holds
\* more than CACHE_SIZE entries and no call fails.
C9_ConcurrentCacheBounded ==
    /\ Len(cache) <= CACHE_SIZE
    /\ \A p \in Procs : pc[p] # "error"

\* C10: when an add returns after a successful save the two files hold
\* exactly the resident pair, and _ensure_index in a new process restores
\* the same vectors and the same metadata entries in the same order.
C10_SavedPairRestoredAfterRestart ==
    (AddReturned /\ ret.saved) =>
        /\ IsSome(diskIndex) /\ IsSome(diskMeta)
        /\ IndexReadable(diskIndex.val) /\ ReadIndex(diskIndex.val) = index.val
        /\ MetaReadable(diskMeta.val) /\ PickleLoad(diskMeta.val) = meta.val
        /\ LET e == EnsureIndex(None, None, "None", diskIndex, diskMeta)
           IN  e.how = "restored" /\ e.index = index /\ e.meta = meta

\* an add onto earlier content returned after a successful save
C10_Witness ==
    /\ AddReturned
    /\ ret.saved
    /\ ret.n >= 1
    /\ Len(index.val) >= 2

\* the step is a completed ensure_index_and_add of a non-empty batch
AddReturns ==
    ret'.op = "add" /\ ret'.status = "returned" /\ Len(ret'.chunks) > 0

\* the last k items of a sequence
LastK(q, k) == SubSeq(q, Len(q) - k + 1, Len(q))

\* C11: an add whose save fails still returns (ret.saved = FALSE on a
\* returned call) and its vectors and metadata entries stay at the end of the
\* resident pair; when the next call is an add whose save succeeds, it
\* appends to that pair and leaves the two files holding the whole resident
\* pair, the unsaved batch included.
C11_FailedSaveKeepsBatchResident ==
    [][AddReturns =>
          /\ ~ret'.saved =>
                /\ Len(index'.val) >= Len(ret'.chunks)
                /\ Len(meta'.val) >= Len(ret'.chunks)
                /\ LastK(index'.val, Len(ret'.chunks))
                      = ChunkTexts2Vecs(ret'.chunks)
                /\ LastK(meta'.val, Len(ret'.chunks))
                      = MetaAppend(<<>>, ret'.chunks)
          /\ (ret'.after = "failed_save" /\ ret'.saved) =>
                /\ index'.val = index.val \o ChunkTexts2Vecs(ret'.chunks)
                /\ meta'.val = meta.val \o MetaAppend(<<>>, ret'.chunks)
                /\ IndexReadable(diskIndex'.val)
                /\ ReadIndex(diskIndex'.val) = index'.val
                /\ MetaReadable(diskMeta'.val)
                /\ PickleLoad(diskMeta'.val) = meta'.val]_vars

\* an add returned saved right after an add whose save had failed, and the
\* files hold both batches
C11_Witness ==
    /\ AddReturned
    /\ ret.saved
    /\ ret.after = "failed_save"
    /\ ret.n >= 1
    /\ Len(ReadIndex(diskIndex.val)) = ret.n + Len(ret.chunks)

\* C12: whatever the adds left in the two files, loading them (at process
\* start or by the admin reload) gives a pair whose metadata length equals
\* its vector count.
C12_DurableFilesMatchedPair ==
    LET e == EnsureIndex(None, None, model, diskIndex, diskMeta)
    IN  Len(e.meta.val) = Len(e.index.val)

\* C13: a call of _ensure_index with the pair resident changes neither the
\* resident pair nor the files, the model or the cache, and reads nothing
\* from the files.
C13_EnsureIndexIdempotent ==
    [][(ret'.op = "ensure" /\ IsSome(index) /\ IsSome(meta)) =>
          /\ ret'.how = "resident"
          /\ UNCHANGED <<index, meta, model, cache, diskIndex, diskMeta>>]_vars

\* _ensure_index returned with a resident pair that differs from what the
\* files hold
C13_Witness ==
    /\ ret.op = "ensure"
    /\ ret.how = "resident"
    /\ Len(index.val) >= 1
    /\ Restorable(diskIndex, diskMeta)
    /\ ReadIndex(diskIndex.val) # index.val

\* C14: when the pair has to be loaded and a file is missing or unreadable,
\* _ensure_index returns with an empty index and an empty metadata list
\* resident together (never the index read from its file beside a fresh
\* metadata list, or the reverse).
C14_RestoreFailureGivesFreshPair ==
    [][(/\ ret'.op \in {"ensure", "reload"}
        /\ ret'.op = "reload" \/ ~(IsSome(index) /\ IsSome(meta))
        /\ \/ IsNone(diskIndex) \/ IsNone(diskMeta)
           \/ ~IndexReadable(diskIndex.val) \/ ~MetaReadable(diskMeta.val)) =>
          /\ ret'.how = "fresh"
          /\ index' = Some(<<>>)
          /\ meta' = Some(<<>>)]_vars

\* the index file was complete and held vectors, the metadata file was
\* missing or cut short, and the load ended with the fresh empty pair
C14_Witness ==
    /\ ret.op \in {"ensure", "reload"}
    /\ ret.how = "fresh"
    /\ IsSome(diskIndex)
    /\ IndexReadable(diskIndex.val)
    /\ Len(ReadIndex(diskIndex.val)) >= 1
    /\ IsNone(diskMeta) \/ ~MetaReadable(diskMeta.val)
    /\ index = Some(<<>>)
    /\ meta = Some(<<>>)

\* the step is an unscoped retrieval made right after a completed add
SearchAfterAdd ==
    /\ AddReturned
    /\ ret'.op = "retrieve"
    /\ IsNone(ret'.document_ids)

\* the positions of the index whose vector is the embedding of the text
SameEmbedding(xb, t) == {p \in 1..Len(xb) : Dist(xb[p], EmbedVec(t)) = 0}

C16_EmptyIndexReturnsEmptyList ==
    (ret.op = "retrieve" /\ Len(index.val) = 0) =>
        /\ ret.status = "returned"
        /\ ret.search = "returned"
        /\ ~ret.encoded
        /\ ret.found = <<>>
        /\ ret.result = <<>>

\* a scoped retrieval returned from an empty index
C16_Witness ==
    /\ ret.op = "retrieve"
    /\ Len(index.val) = 0
    /\ Truthy(ret.document_ids)
    /\ ret.result = <<>>

\* C17: when embedding the query fails inside search_index, retrieve_top_k
\* ends with that error instead of returning a result.
C17_EmbeddingFailurePropagates ==
    (ret.op = "retrieve" /\ ret.search = "raised") => ret.status = "raised"

\* chunk_and_store has returned its list
ChunkReturned == ret.op = "chunk" /\ ret.status = "returned"

\* the pages handed to chunk_and_store and the chunks emitted so far
ChunkPages == IF ret.op = "chunk" THEN ret.pages ELSE loc[1].pages

Emitted == IF ret.op = "chunk" THEN ret.chunks ELSE loc[1].chunks_data

\* the chunks of page k, in the order of emission
ChunksOfPage(cs, k) == SelectSeq(cs, LAMBDA c : c.page_no = k)

\* C18 as stated: the starts of consecutive chunks of a page differ by
\* CHUNK_SIZE - OVERLAP, and the last chunk emitted for a page ends at the
\* length of the page text.
C18_LastChunkEndsAtPageEnd ==
    ChunkReturned =>
        \A k \in 1..Len(ret.pages) :
            LET cs == ChunksOfPage(ret.chunks, k)
            IN  /\ \A i \in 1..(Len(cs) - 1) :
                      cs[i + 1].char_start = cs[i].char_start + (CHUNK_SIZE - OVERLAP)
                /\ Len(cs) > 0 => cs[Len(cs)].char_end = TextLen(ret.pages[k].text)

\* C18 amended: the starts of consecutive chunks of a page differ by
\* CHUNK_SIZE - OVERLAP and every chunk but the last is CHUNK_SIZE long; the
\* last chunk emitted for a page ends at the length of the page text, or it
\* is a full window and the window after it strips to fewer than
\* MIN_CHUNK_LEN characters, the rest of the page being dropped.
C18_StartsStepAndTailRule ==
    ChunkReturned =>
        \A k \in 1..Len(ret.pages) :
            LET cs == ChunksOfPage(ret.chunks, k)
                text == ret.pages[k].text
                L == TextLen(text)
                last == cs[Len(cs)]
            IN  /\ \A i \in 1..(Len(cs) - 1) :
                      /\ cs[i + 1].char_start
                            = cs[i].char_start + (CHUNK_SIZE - OVERLAP)
                      /\ cs[i].char_end - cs[i].char_start = CHUNK_SIZE
                /\ Len(cs) > 0 =>
                      \/ last.char_end = L
                      \/ /\ last.char_end = last.char_start + CHUNK_SIZE
                         /\ last.char_end < L
                         /\ TextLen(Strip(Slice(text, last.char_end - OVERLAP,
                                    Min(last.char_end - OVERLAP + CHUNK_SIZE, L))))
                               < MIN_CHUNK_LEN

\* a page of 2000 characters gave the chunks [0,1500) and [1200,2000)
C18_Witness ==
    /\ ChunkReturned
    /\ \E k \in 1..Len(ret.pages) :
          LET cs == ChunksOfPage(ret.chunks, k)
          IN  /\ TextLen(ret.pages[k].text) = 2000
              /\ Len(cs) = 2
              /\ cs[1].char_start = 0 /\ cs[1].char_end = 1500
              /\ cs[2].char_start = 1200 /\ cs[2].char_end = 2000

\* C19: no emitted chunk strips to fewer than MIN_CHUNK_LEN characters; a
\* page whose text is empty or whitespace only has no chunk; and a page
\* whose first window is long enough has its first chunk in the returned
\* list whatever happened on the other pages.
C19_NoShortChunks ==
    /\ \A i \in 1..Len(Emitted) :
          TextLen(Strip(Emitted[i].text)) >= MIN_CHUNK_LEN
    /\ \A k \in 1..Len(ChunkPages) :
          Len(Strip(ChunkPages[k].text)) = 0 =>
             Len(ChunksOfPage(Emitted, k)) = 0
    /\ ChunkReturned =>
          \A k \in 1..Len(ret.pages) :
              LET text == ret.pages[k].text
                  first == Slice(text, 0, Min(CHUNK_SIZE, TextLen(text)))
              IN  TextLen(Strip(first)) >= MIN_CHUNK_LEN =>
                     \E i \in 1..Len(ret.chunks) :
                         /\ ret.chunks[i].page_no = k
                         /\ ret.chunks[i].char_start = 0
                         /\ ret.chunks[i].text = first

\* the first page was cut off by a too-short window after a chunk had been
\* emitted for it, and the second page still gave its chunks
C19_Witness ==
    /\ ChunkReturned
    /\ Len(ret.pages) = 2
    /\ LET cs == ChunksOfPage(ret.chunks, 1)
       IN  /\ Len(cs) >= 1
           /\ cs[Len(cs)].char_end < TextLen(ret.pages[1].text)
    /\ Len(ChunksOfPage(ret.chunks, 2)) >= 1

\* C20: every emitted chunk has 0 <= char_start < char_end <= length of its
\* page text, is at most CHUNK_SIZE long, and its text is the slice
\* [char_start, char_end) of the page text.
C20_ChunkBoundsAndText ==
    \A i \in 1..Len(Emitted) :
        LET c == Emitted[i]
            text == ChunkPages[c.page_no].text
        IN  /\ 0 <= c.char_start
            /\ c.char_start < c.char_end
            /\ c.char_end <= TextLen(text)
            /\ c.char_end - c.char_start <= CHUNK_SIZE
            /\ TextLen(c.text) = c.char_end - c.char_start
            /\ c.text = Slice(text, c.char_start, c.char_end)

\* a chunk that starts inside its page and is shorter than the window
C20_Witness ==
    \E i \in 1..Len(Emitted) :
        /\ Emitted[i].char_start > 0
        /\ Emitted[i].char_end - Emitted[i].char_start < CHUNK_SIZE
        /\ Emitted[i].char_end = TextLen(ChunkPages[Emitted[i].page_no].text)

\* C21: an embed_texts call that is not cache-eligible (two or more texts,
\* use_cache = False, or the cache switched off) leaves the cache and its
\* order as they were and takes no vector from it: it invokes the model
\* even when a text of the batch is cached.
C21_IneligibleCallLeavesCache ==
    [][(/\ ret'.op = "embed"
        /\ \/ Len(ret'.texts) >= 2
           \/ ~ret'.use_cache
           \/ ~ENABLE_CACHE) =>
          /\ cache' = cache
          /\ Len(ret'.texts) >= 1 => ret'.encoded
          /\ ret'.evicted = 0]_vars

\* a batch of two texts, the first of them cached, was embedded by the model
C21_Witness ==
    /\ ret.op = "embed"
    /\ ret.status = "returned"
    /\ ret.use_cache
    /\ ENABLE_CACHE
    /\ Len(ret.texts) = 2
    /\ ret.encoded
    /\ \E i \in 1..Len(cache) : cache[i].key = HashText(ret.texts[1])

\* the cache holds an entry for the text
Cached(c, t) == \E i \in 1..Len(c) : c[i].key = HashText(t)

\* C22: a question on a non-empty index whose text is cached gets the
\* stored vector without a call of encode and leaves the cache as it is,
\* and every such question leaves its text cached: asked again before its
\* entry is evicted or the cache cleared, it does not reach encode.
C22_CacheHitSkipsEncode ==
    [][(ret'.op = "retrieve" /\ Len(index'.val) > 0) =>
          /\ Cached(cache, ret'.query) =>
                /\ ~ret'.encoded
                /\ cache' = cache
                /\ ret'.search = "returned"
          /\ ~Cached(cache, ret'.query) => ret'.encoded
          /\ Cached(cache', ret'.query)]_vars

\* a question was answered from the cache while another text was cached too
C22_Witness ==
    /\ ret.op = "retrieve"
    /\ ~ret.encoded
    /\ Len(ret.result) >= 1
    /\ Len(cache) >= 2
    /\ Cached(cache, ret.query)

\* C23: the list retrieve_top_k returns has at most top_k entries, its
\* scores never decrease along the list, each score is the distance between
\* the question's vector and the vector stored at the position of the
\* entry's metadata, and the entry at list position i (counted from 1)
\* carries rank i, whether or not the scope filter dropped candidates.
C23_ResultBoundedOrderedRanked ==
    (ret.op = "retrieve" /\ ret.search = "returned") =>
        /\ Len(ret.result) <= ret.top_k
        /\ \A i, j \in 1..Len(ret.result) :
              i < j => ret.result[i].score <= ret.result[j].score
        /\ \A i \in 1..Len(ret.result) :
              /\ ret.result[i].rank = i
              /\ \E p \in 1..Len(meta.val) :
                    /\ p <= Len(index.val)
                    /\ meta.val[p].chunk_id = ret.result[i].chunk_id
                    /\ meta.val[p].document_id = ret.result[i].document_id
                    /\ ret.result[i].score =
                          Dist(index.val[p], EmbedVec(ret.query))

\* a scoped retrieval returned a chunk after the filter dropped a nearer
\* candidate of another document
C23_Witness ==
    /\ ret.op = "retrieve"
    /\ ret.search = "returned"
    /\ Truthy(ret.document_ids)
    /\ Len(ret.result) >= 1
    /\ ret.result[Len(ret.result)].rank = Len(ret.result)
    /\ \E p \in 1..Len(meta.val) :
          /\ p <= Len(index.val)
          /\ meta.val[p].document_id \notin ret.document_ids.val
          /\ Dist(index.val[p], EmbedVec(ret.query)) < ret.result[1].score

\* the filter of a scope lets the metadata entry through
InScope(m, document_ids) ==
    ~Truthy(document_ids) \/ m.document_id \in document_ids.val

\* the number of candidates one call asks the index for
Asked(top_k, document_ids, n) ==
    IF Truthy(document_ids) THEN Min(top_k * 10, n) ELSE Min(top_k, n)

C25_RerankedTopK ==
    ret.op = "rerank" =>
        LET Capped(m) == Min(m.char_end - m.char_start, 1000)
            AtLeast(x, y) ==
                (7000 + 3 * Capped(x) * (1 + x.score)) * (1 + y.score)
                   >= (7000 + 3 * Capped(y) * (1 + y.score)) * (1 + x.score)
            Kept(j) == \E i \in 1..Len(ret.result) : ret.result[i].rank = j
        IN  /\ Len(ret.candidates) <= ret.initial_k
            /\ Len(ret.result) = Min(ret.top_k, Len(ret.candidates))
            /\ \A i \in 1..Len(ret.result) :
                  /\ ret.result[i].rank \in 1..Len(ret.candidates)
                  /\ ret.candidates[ret.result[i].rank].chunk_id = ret.result[i].chunk_id
                  /\ ret.candidates[ret.result[i].rank].score = ret.result[i].score
                  /\ ret.candidates[ret.result[i].rank].text = ret.result[i].text
            /\ \A i, j \in 1..Len(ret.result) :
                  i < j => /\ ret.result[i].rank # ret.result[j].rank
                           /\ AtLeast(ret.result[i], ret.result[j])
            /\ \A j \in 1..Len(ret.candidates) :
                  ~Kept(j) => \A i \in 1..Len(ret.result) :
                                 AtLeast(ret.result[i], ret.candidates[j])

\* of two candidates the farther and longer one was returned alone
C25_Witness ==
    /\ ret.op = "rerank"
    /\ Len(ret.candidates) = 2
    /\ ret.top_k = 1
    /\ Len(ret.result) = 1
    /\ ret.result[1].chunk_id = ret.candidates[2].chunk_id
    /\ ret.candidates[1].score < ret.candidates[2].score

\* C26: in the list retrieve_with_reranking returns, the entry at list
\* position i (counted from 1) carries rank i.
C26_RankIsFinalPosition ==
    ret.op = "rerank" =>
        \A i \in 1..Len(ret.result) : ret.result[i].rank = i

\* the scope is given and names no document
EmptyScope(document_ids) == IsSome(document_ids) /\ document_ids.val = {}

\* C27: a request whose document_ids is the empty list keeps the empty list
\* whatever its document_id is, and is searched like a request without
\* scope: the index is asked for min(top_k, vector count) candidates, no
\* candidate is filtered, so the list holds min(top_k, vector count) chunks,
\* the nearest of all documents.
C27_EmptyScopeSearchesAll ==
    (ret.op = "ask" /\ EmptyScope(ret.req_document_ids)) =>
        LET q == EmbedVec(ret.query)
            xb == index.val
            n == Len(xb)
            Nearer(d) == Cardinality({p \in 1..n : Dist(xb[p], q) < d})
        IN  /\ EmptyScope(ret.document_ids)
            /\ n > 0 =>
                  /\ ret.search_k = Min(ret.top_k, n)
                  /\ Len(ret.result) = Min(ret.top_k, n)
                  /\ \A i \in 1..Len(ret.result) :
                        Nearer(ret.result[i].score) < i

\* a request with document_ids = [] and document_id = "A" got a chunk of
\* document B
C27_Witness ==
    /\ ret.op = "ask"
    /\ EmptyScope(ret.req_document_ids)
    /\ ret.req_document_id = Some("A")
    /\ \E i \in 1..Len(ret.result) : ret.result[i].document_id = "B"

\* C28: an add whose batch embedding fails raises to the caller and has no
\* partial effect: a resident pair is exactly as before, a pair that was not
\* resident is the one _ensure_index makes resident, and the durable files
\* and the cache are as before the call. (A step of ensure_index_and_add
\* that meets a fault and is not a failed save is a failed embedding.)
C28_FailedEmbeddingNoPartialAdd ==
    [][(/\ ret'.op = "add"
        /\ faults' = faults + 1
        /\ ~(ret'.status = "returned" /\ ~ret'.saved)) =>
          /\ ret'.status = "raised"
          /\ IsSome(index) => index' = index /\ meta' = meta
          /\ IsNone(index) =>
                /\ index' = EnsureIndex(index, meta, model, diskIndex, diskMeta).index
                /\ meta' = EnsureIndex(index, meta, model, diskIndex, diskMeta).meta
          /\ diskIndex' = diskIndex
          /\ diskMeta' = diskMeta
          /\ cache' = cache]_vars

\* an add raised on an index that holds chunks saved earlier
C28_Witness ==
    /\ ret.op = "add"
    /\ ret.status = "raised"
    /\ faults = 1
    /\ IsSome(index)
    /\ Len(index.val) >= 1
    /\ Len(meta.val) = Len(index.val)
    /\ IsSome(diskIndex)
    /\ IndexReadable(diskIndex.val)
    /\ Len(ReadIndex(diskIndex.val)) = Len(index.val)

\* the number of entries of a metadata list a scope lets through
InScopeCount(mt, document_ids) ==
    Cardinality({p \in 1..Len(mt) : InScope(mt[p], document_ids)})

CeilDiv(a, b) == (a + b - 1) \div b

\* C30: chunk_and_store finishes for every list of pages; an iteration of
\* the window loop that goes on to another window moves start forward by
\* CHUNK_SIZE - OVERLAP; and at every moment the chunks emitted for a page
\* of length L are at most ceil(L / (CHUNK_SIZE - OVERLAP)).
C30_ChunkingTerminates ==
    /\ <>(pc[1] = "returned")
    /\ [][(pc[1] = "k37" /\ pc'[1] = "k37") =>
             loc'[1].start = loc[1].start + (CHUNK_SIZE - OVERLAP)]_vars
    /\ [](\A k \in 1..Len(ChunkPages) :
             Len(ChunksOfPage(Emitted, k)) <=
                CeilDiv(TextLen(ChunkPages[k].text), CHUNK_SIZE - OVERLAP))

\* the call returned and a page of it gave as many chunks as the bound
\* allows, more than one
C30_Witness ==
    /\ ChunkReturned
    /\ pc[1] = "returned"
    /\ \E k \in 1..Len(ret.pages) :
          /\ Len(ChunksOfPage(ret.chunks, k)) > 1
          /\ Len(ChunksOfPage(ret.chunks, k)) =
                CeilDiv(TextLen(ret.pages[k].text), CHUNK_SIZE - OVERLAP)

====
